---- MODULE Spec2Model ----
(***************************************************************************)
(* A model of the SOCKS5 proxy of sc2025mi: the session driven by          *)
(* handle_client (src/advanced.rs and src/basic.rs) over one accepted      *)
(* client connection, with the wire codec it calls and the two-thread      *)
(* relay of bridge.  The client and the remote host are the environment:   *)
(* they put bytes on their streams, close them, and make writes fail.      *)
(***************************************************************************)
EXTENDS Integers, Sequences, FiniteSets, TLC

\* ------------------------------------------------------------------------
\* Bounds of the model
\* ------------------------------------------------------------------------
\* longest method list a greeting of the model offers
MaxMethods == 2
\* number of payload bytes each peer sends during the relay
MaxPayload == 2
\* the most results of listener.incoming() main handles in a run
MaxSessions == 2

\* ------------------------------------------------------------------------
\* Program constants
\* ------------------------------------------------------------------------
SOCKS5_VERSION == 5
NO_AUTH_METHOD == 0
USERPASS_METHOD == 2
NO_ACCEPTABLE_METHOD == 255
\* Reply::code
ReplySucceeded == 0
ReplyGeneralFailure == 1
ReplyCommandNotSupported == 7
\* U+FFFD, what String::from_utf8_lossy puts for an ill-formed sequence
REPLACEMENT_CHARACTER == 65533

\* ------------------------------------------------------------------------
\* Helpers on byte sequences
\* ------------------------------------------------------------------------
Take(s, n) == SubSeq(s, 1, n)
Drop(s, n) == SubSeq(s, n + 1, Len(s))
IsPrefix(p, s) == Len(p) <= Len(s) /\ Take(s, Len(p)) = p
Contains(s, b) == \E i \in 1..Len(s) : s[i] = b
\* all sequences over S of length 0..n
RECURSIVE SeqsUpTo(_, _)
SeqsUpTo(S, n) ==
    IF n = 0 THEN {<<>>}
    ELSE LET shorter == SeqsUpTo(S, n - 1)
         IN  shorter \cup {Append(s, x) : s \in {t \in shorter : Len(t) = n - 1}, x \in S}

\* ------------------------------------------------------------------------
\* Wire codec.  A decoder is given the unread bytes of the stream and what
\* the stream gives once they are taken: "open" (more may come), "eof" (the
\* peer stream) or "reset" (the peer reset the connection).  read_exact
\* blocks while bytes are missing and the stream is open, fails with
\* UnexpectedEof at end-of-stream and with the error of the read,
\* ConnectionReset, after a reset.
\* A decoder yields [st, val, used]: st is "block", "ok" or the error.
\* ------------------------------------------------------------------------
Blocked == [st |-> "block", val |-> <<>>, used |-> 0]
Failed(e, n) == [st |-> e, val |-> <<>>, used |-> n]
Decoded(v, n) == [st |-> "ok", val |-> v, used |-> n]
\* read_exact of n bytes after `off` bytes were already taken from buf
Short(buf, off, n) == Len(buf) < off + n
Starved(buf, stream) ==
    IF stream = "open" THEN Blocked
    ELSE IF stream = "eof" THEN Failed("UnexpectedEof", Len(buf))
    ELSE Failed("ConnectionReset", Len(buf))

read_greeting(buf, stream) ==
    IF Short(buf, 0, 2) THEN Starved(buf, stream)
    ELSE IF buf[1] # SOCKS5_VERSION THEN Failed("UnsupportedVersion", 2)
    ELSE LET count == buf[2]
         IN  IF Short(buf, 2, count) THEN Starved(buf, stream)
             ELSE Decoded(SubSeq(buf, 3, 2 + count), 2 + count)

send_method_selection(method) == <<SOCKS5_VERSION, method>>

\* A continuation byte of UTF-8, 10xxxxxx
IsCont(b) == b \in 128..191
ByteAt(bytes, i) == IF i \in 1..Len(bytes) THEN bytes[i] ELSE -1

\* The length of the sequence a first byte announces; 0 for a byte that can
\* start none (0x80..0xC1, 0xF5..0xFF)
utf8_char_width(b) ==
    IF b < 128 THEN 1
    ELSE IF b \in 194..223 THEN 2
    ELSE IF b \in 224..239 THEN 3
    ELSE IF b \in 240..244 THEN 4
    ELSE 0

\* The second byte a three or four byte sequence admits: no overlong form,
\* no surrogate, nothing above U+10FFFF
SecondOk(b, n) ==
    \/ b = 224 /\ n \in 160..191
    \/ b \in 225..236 /\ n \in 128..191
    \/ b = 237 /\ n \in 128..159
    \/ b \in 238..239 /\ n \in 128..191
    \/ b = 240 /\ n \in 144..191
    \/ b \in 241..243 /\ n \in 128..191
    \/ b = 244 /\ n \in 128..143

\* How many bytes after bytes[i] belong to the chunk that starts at i: the
\* rest of a well-formed sequence, or the bytes that were accepted before
\* the sequence turned out ill-formed or cut short
Absorbed(bytes, i) ==
    LET b == bytes[i]
        w == utf8_char_width(b)
        n1 == ByteAt(bytes, i + 1)
        n2 == ByteAt(bytes, i + 2)
        n3 == ByteAt(bytes, i + 3)
    IN  IF w = 2 THEN (IF IsCont(n1) THEN 1 ELSE 0)
        ELSE IF w = 3 THEN (IF ~SecondOk(b, n1) THEN 0
                            ELSE IF IsCont(n2) THEN 2 ELSE 1)
        ELSE IF w = 4 THEN (IF ~SecondOk(b, n1) THEN 0
                            ELSE IF ~IsCont(n2) THEN 1
                            ELSE IF IsCont(n3) THEN 3 ELSE 2)
        ELSE 0

\* The chunk that starts at i is one well-formed character
ChunkValid(bytes, i) ==
    LET w == utf8_char_width(bytes[i])
    IN  w >= 1 /\ Absorbed(bytes, i) = w - 1

\* A chunk starts at i unless a first byte up to three places before took
\* bytes[i] as one of its continuation bytes
ChunkStart(bytes, i) ==
    \/ ~IsCont(bytes[i])
    \/ ~\E j \in (i - 3)..(i - 1) : j >= 1 /\ Absorbed(bytes, j) >= i - j

\* The character of the chunk at i: the code point of a well-formed
\* sequence, U+FFFD for an ill-formed one
ChunkChar(bytes, i) ==
    LET b == bytes[i]
        w == utf8_char_width(b)
    IN  IF ~ChunkValid(bytes, i) THEN REPLACEMENT_CHARACTER
        ELSE IF w = 1 THEN b
        ELSE IF w = 2 THEN (b - 192) * 64 + (bytes[i + 1] - 128)
        ELSE IF w = 3 THEN (b - 224) * 4096 + (bytes[i + 1] - 128) * 64
                               + (bytes[i + 2] - 128)
        ELSE (b - 240) * 262144 + (bytes[i + 1] - 128) * 4096
                 + (bytes[i + 2] - 128) * 64 + (bytes[i + 3] - 128)

\* The characters of the chunks that start in lo..hi, in order
RECURSIVE LossyChars(_, _, _)
LossyChars(bytes, lo, hi) ==
    IF lo > hi THEN <<>>
    ELSE IF lo = hi
         THEN (IF ChunkStart(bytes, lo) THEN <<ChunkChar(bytes, lo)>> ELSE <<>>)
    ELSE LET mid == (lo + hi) \div 2
         IN  LossyChars(bytes, lo, mid) \o LossyChars(bytes, mid + 1, hi)

\* String::from_utf8_lossy: the text as a sequence of code points. A
\* well-formed sequence of one to four bytes is one character, each maximal
\* ill-formed or truncated run is one U+FFFD.
from_utf8_lossy(bytes) == LossyChars(bytes, 1, Len(bytes))

\* mutant: the version is looked at only after the whole message was read
read_auth_request_late_check(buf, stream) ==
    IF Short(buf, 0, 2) THEN Starved(buf, stream)
    ELSE LET ver == buf[1]
             ulen == buf[2]
         IN  IF Short(buf, 2, ulen) THEN Starved(buf, stream)
             ELSE IF Short(buf, 2 + ulen, 1) THEN Starved(buf, stream)
             ELSE LET plen == buf[3 + ulen]
                  IN  IF Short(buf, 3 + ulen, plen) THEN Starved(buf, stream)
                      ELSE IF ver # 1 THEN Failed("InvalidAuthVersion", 3 + ulen + plen)
                      ELSE Decoded(
                             [decoded |-> FALSE,
                              username |-> from_utf8_lossy(SubSeq(buf, 3, 2 + ulen)),
                              password |-> from_utf8_lossy(
                                              SubSeq(buf, 4 + ulen, 3 + ulen + plen))],
                             3 + ulen + plen)

\* perform_userpass_auth, its reads: header, username, length, password
read_auth_request(buf, stream) ==
    IF Short(buf, 0, 2) THEN Starved(buf, stream)
    ELSE LET ver == buf[1]
             ulen == buf[2]
         IN  IF ver # 1 THEN Failed("InvalidAuthVersion", 2)
             ELSE IF Short(buf, 2, ulen) THEN Starved(buf, stream)
             ELSE IF Short(buf, 2 + ulen, 1) THEN Starved(buf, stream)
             ELSE LET plen == buf[3 + ulen]
                  IN  IF Short(buf, 3 + ulen, plen) THEN Starved(buf, stream)
                      ELSE Decoded(
                             [decoded |-> FALSE,
                              username |-> from_utf8_lossy(SubSeq(buf, 3, 2 + ulen)),
                              password |-> from_utf8_lossy(
                                              SubSeq(buf, 4 + ulen, 3 + ulen + plen))],
                             3 + ulen + plen)

\* mutant: one of the two matching is enough
credentials_match_either(cred, expected) ==
    cred.username = expected.user \/ cred.password = expected.pass

\* mutant: only the username is compared
credentials_match_user_only(cred, expected) == cred.username = expected.user

\* perform_userpass_auth, its decision
credentials_match(cred, expected) ==
    cred.username = expected.user /\ cred.password = expected.pass

\* AuthResult bytes
AuthSuccess == <<1, 0>>
AuthFailure == <<1, 1>>

\* impl From<u8> for Command
Command_from(code) ==
    IF code = 1 THEN [tag |-> "Connect", code |-> 1]
    ELSE IF code = 2 THEN [tag |-> "Bind", code |-> 2]
    ELSE IF code = 3 THEN [tag |-> "UdpAssociate", code |-> 3]
    ELSE [tag |-> "Unknown", code |-> code]

\* mutant: the port is read low byte first
from_le_bytes(hi, lo) == lo * 256 + hi


from_be_bytes(hi, lo) == hi * 256 + lo
\* mutant: the port is written low byte first
to_le_bytes(port) == <<port % 256, port \div 256>>


to_be_bytes(port) == <<port \div 256, port % 256>>

\* mutant: the stream is read through a buffer that takes all that is there
ReadPort_buffered(buf, stream, command, address, off) ==
    IF Short(buf, off, 2) THEN Starved(buf, stream)
    ELSE Decoded([command |-> command, address |-> address,
                  port |-> from_be_bytes(buf[off + 1], buf[off + 2])], Len(buf))


\* the address and port of a request, read after the 4 header bytes
ReadPort(buf, stream, command, address, off) ==
    IF Short(buf, off, 2) THEN Starved(buf, stream)
    ELSE Decoded([command |-> command, address |-> address,
                  port |-> from_be_bytes(buf[off + 1], buf[off + 2])], off + 2)

\* mutant: the reserved byte is checked before the version
read_request_rsv_first(buf, stream) ==
    IF Short(buf, 0, 4) THEN Starved(buf, stream)
    ELSE IF buf[3] # 0 THEN Failed("ReservedNotZero", 4)
    ELSE LET command == Command_from(buf[2])
         IN  IF buf[1] # SOCKS5_VERSION THEN Failed("UnsupportedVersion", 4)
             ELSE IF buf[4] = 1 THEN
                    IF Short(buf, 4, 4) THEN Starved(buf, stream)
                    ELSE ReadPort(buf, stream, command,
                                  [tag |-> "Ipv4", val |-> SubSeq(buf, 5, 8)], 8)
             ELSE IF buf[4] = 3 THEN
                    IF Short(buf, 4, 1) THEN Starved(buf, stream)
                    ELSE LET n == buf[5]
                         IN  IF Short(buf, 5, n) THEN Starved(buf, stream)
                             ELSE ReadPort(buf, stream, command,
                                           [tag |-> "Domain",
                                            val |-> from_utf8_lossy(SubSeq(buf, 6, 5 + n))],
                                           5 + n)
             ELSE IF buf[4] = 4 THEN
                    IF Short(buf, 4, 16) THEN Starved(buf, stream)
                    ELSE ReadPort(buf, stream, command,
                                  [tag |-> "Ipv6", val |-> SubSeq(buf, 5, 20)], 20)
             ELSE Failed("UnsupportedAddressType", 4)


read_request(buf, stream) ==
    IF Short(buf, 0, 4) THEN Starved(buf, stream)
    ELSE IF buf[1] # SOCKS5_VERSION THEN Failed("UnsupportedVersion", 4)
    ELSE LET command == Command_from(buf[2])
         IN  IF buf[3] # 0 THEN Failed("ReservedNotZero", 4)
             ELSE IF buf[4] = 1 THEN
                    IF Short(buf, 4, 4) THEN Starved(buf, stream)
                    ELSE ReadPort(buf, stream, command,
                                  [tag |-> "Ipv4", val |-> SubSeq(buf, 5, 8)], 8)
             ELSE IF buf[4] = 3 THEN
                    IF Short(buf, 4, 1) THEN Starved(buf, stream)
                    ELSE LET n == buf[5]
                         IN  IF Short(buf, 5, n) THEN Starved(buf, stream)
                             ELSE ReadPort(buf, stream, command,
                                           [tag |-> "Domain",
                                            val |-> from_utf8_lossy(SubSeq(buf, 6, 5 + n))],
                                           5 + n)
             ELSE IF buf[4] = 4 THEN
                    IF Short(buf, 4, 16) THEN Starved(buf, stream)
                    ELSE ReadPort(buf, stream, command,
                                  [tag |-> "Ipv6", val |-> SubSeq(buf, 5, 20)], 20)
             ELSE Failed("UnsupportedAddressType", 4)

\* SocketAddr values; NoBound is the None of Option<SocketAddr>
NoBound == [fam |-> "None", ip |-> <<>>, port |-> 0]
default_bound_address == [fam |-> "V4", ip |-> <<0, 0, 0, 0>>, port |-> 0]

send_reply(reply, bound) ==
    LET bound_addr == IF bound = NoBound THEN default_bound_address ELSE bound
    IN  <<SOCKS5_VERSION, reply, 0>>
        \o (IF bound_addr.fam = "V4" THEN <<1>> ELSE <<4>>)
        \o bound_addr.ip
        \o to_be_bytes(bound_addr.port)

\* mutant: the no-authentication method is looked for first
choose_method_noauth_first(variant, methods) ==
    IF Contains(methods, NO_AUTH_METHOD) THEN NO_AUTH_METHOD
    ELSE IF variant = "advanced" /\ Contains(methods, USERPASS_METHOD) THEN USERPASS_METHOD
    ELSE NO_ACCEPTABLE_METHOD

\* mutant: the basic server chooses as the advanced one does
choose_method_variant_blind(variant, methods) ==
    IF Contains(methods, USERPASS_METHOD) THEN USERPASS_METHOD
    ELSE IF Contains(methods, NO_AUTH_METHOD) THEN NO_AUTH_METHOD
    ELSE NO_ACCEPTABLE_METHOD


\* handle_client, its choice of the method (advanced.rs and basic.rs)
choose_method(variant, methods) ==
    IF variant = "advanced"
    THEN IF Contains(methods, USERPASS_METHOD) THEN USERPASS_METHOD
         ELSE IF Contains(methods, NO_AUTH_METHOD) THEN NO_AUTH_METHOD
         ELSE NO_ACCEPTABLE_METHOD
    ELSE IF ~Contains(methods, NO_AUTH_METHOD) THEN NO_ACCEPTABLE_METHOD
         ELSE NO_AUTH_METHOD

\* ------------------------------------------------------------------------
\* Inputs of the model
\* ------------------------------------------------------------------------
MethodBytes == {0, 1, 2}
Greetings ==
    {<<SOCKS5_VERSION, Len(m)>> \o m : m \in SeqsUpTo(MethodBytes, MaxMethods)}
    \cup {<<4, 1, 0>>}
    \* a greeting cut short: two methods announced, one sent
    \cup {<<SOCKS5_VERSION, 2, 0>>}

\* "user" and "password", the defaults of perform_userpass_auth
DefaultUser == <<117, 115, 101, 114>>
DefaultPass == <<112, 97, 115, 115, 119, 111, 114, 100>>
\* PROXY_USERNAME / PROXY_PASSWORD unset, or both set to the text U+FFFD
ExpectedChoices ==
    {[user |-> DefaultUser, pass |-> DefaultPass],
     [user |-> <<REPLACEMENT_CHARACTER>>, pass |-> <<REPLACEMENT_CHARACTER>>]}

AuthMsgs ==
    {<<1, 4>> \o DefaultUser \o <<8>> \o DefaultPass,
     <<1, 4>> \o DefaultUser \o <<1, 120>>,
     <<1, 1, 120, 8>> \o DefaultPass,
     <<2, 4>> \o DefaultUser \o <<8>> \o DefaultPass,
     <<1, 1, 255, 1, 255>>,
     <<1, 3, 239, 191, 189, 3, 239, 191, 189>>,
     <<1, 2, 226, 130, 2, 226, 130>>,
     \* an authentication message cut short in its username
     <<1, 4, 117>>,
     <<1, 0, 0>>}

Ipv6Sample == <<32, 1, 13, 184, 0, 0, 0, 0, 0, 0, 0, 0, 0, 0, 0, 1>>
\* ATYP and the DST.ADDR bytes sent with it; 5 is no address type
AddrEncodings ==
    {<<1, 93, 184, 216, 34>>, <<3, 3, 97, 46, 98>>, <<3, 0>>, <<4>> \o Ipv6Sample, <<5>>}
PortBytes == <<0, 80>>
Requests ==
    {<<SOCKS5_VERSION, cmd, 0>> \o a \o PortBytes : cmd \in {1, 2, 3, 9}, a \in AddrEncodings}
    \cup {<<4, 1, 0, 1, 93, 184, 216, 34>> \o PortBytes,
          <<SOCKS5_VERSION, 1, 1, 1, 93, 184, 216, 34>> \o PortBytes,
          <<4, 1, 1, 5>> \o PortBytes,
          <<SOCKS5_VERSION, 2, 1, 5>> \o PortBytes,
          <<SOCKS5_VERSION, 1, 0, 3, 2, 195, 169>> \o PortBytes,
          \* requests cut short in the domain name and in the port
          <<SOCKS5_VERSION, 1, 0, 3, 3, 97>>,
          <<SOCKS5_VERSION, 1, 0, 1, 93, 184, 216, 34, 0>>}

\* what remote.local_addr() can give after a successful connect
BoundChoices ==
    {[fam |-> "V4", ip |-> <<10, 0, 0, 1>>, port |-> 4321],
     [fam |-> "V6", ip |-> Ipv6Sample, port |-> 4321],
     NoBound}

\* the i-th payload byte each peer sends: all different, so that a
\* reordering, a duplication or an omission shows
ClientByte(i) == 160 + i
RemoteByte(i) == 176 + i

\* The runs of the model are of two kinds.  With payload = 0 the client picks
\* any greeting, authentication message and request, and the peers relay no
\* data (the relay still runs to end-of-stream or to an error).  With
\* payload = MaxPayload each peer sends that many bytes through the relay,
\* and the client picks its handshake among the messages below.
PayloadGreetings == {<<SOCKS5_VERSION, 1, 0>>, <<SOCKS5_VERSION, 2, 0, 2>>}
PayloadAuthMsgs == {<<1, 4>> \o DefaultUser \o <<8>> \o DefaultPass}
PayloadRequests == {<<SOCKS5_VERSION, 1, 0, 3, 3, 97, 46, 98>> \o PortBytes}
GreetingsOf(n) == IF n = 0 THEN Greetings ELSE PayloadGreetings
AuthMsgsOf(n) == IF n = 0 THEN AuthMsgs ELSE PayloadAuthMsgs
RequestsOf(n) == IF n = 0 THEN Requests ELSE PayloadRequests

Dir == {"fwd", "back"}
\* the direction that copies the other way, between the same two sockets
Other(d) == IF d = "fwd" THEN "back" ELSE "fwd"

\* ------------------------------------------------------------------------
\* State
\* ------------------------------------------------------------------------
VARIABLES
    variant,    \* "advanced" (src/advanced.rs) or "basic" (src/basic.rs)
    expected,   \* the expected credentials, from the environment or the defaults
    cin,        \* bytes the client has sent and the server has not read yet
    cclosed,    \* the client has closed its sending side
    cstep,      \* what the client sends next: 0 greeting, 1 auth, 2 request, 3 payload
    csent,      \* payload bytes the client has sent
    payload,    \* payload bytes each peer sends in this run
    rin,        \* bytes the remote has sent and the server has not read yet
    rclosed,    \* the remote has closed its sending side
    rsent,      \* payload bytes the remote has sent
    pc,         \* where handle_client is
    result,     \* what handle_client returned: "none" while it runs
    methods,    \* the method list read_greeting returned
    method,     \* the method byte chosen, -1 before
    authst,     \* the outcome of perform_userpass_auth
    cred,       \* the username and password perform_userpass_auth decoded
    request,    \* the Request read_request returned
    connect,    \* "none", "ok" or "failed": the outcome of request.connect()
    bound,      \* bound_addr of handle_client
    consumed,   \* bytes the handshake has taken from the client stream
    reads,      \* the decoders that have returned, in order
    wlog,       \* the handshake messages given to write_all, in order
    cout,       \* the handshake bytes that reached the client
    spawned,    \* bridge has spawned the forwarding thread
    cp,         \* per direction, where its copy is
    buf,        \* per direction, the chunk read and not yet written
    rd,         \* per direction, the bytes read from the source
    wr,         \* per direction, the bytes written to the destination
    ended,      \* per direction, how its io::copy ended: "no" while it runs
    reset,      \* per direction, the peer has reset the source: once what it sent
                \* before is read, a read of it fails
                \* (for fwd also the reads of the handshake)
    shutdowns,  \* the shutdown calls made: <<socket, half>>
    reqhdr,     \* the 4 header bytes read_request has read, <<>> before
    usedlog,    \* how many bytes each decoder took from the stream, as in reads
    rawlog,     \* the bytes themselves, as in reads
    listening,  \* main: the accept loop is running
    sess,       \* main: per accepted connection, its session thread
    call,       \* a codec function and its arguments
    ret         \* whether that call has returned, and what

envVars == <<variant, expected, payload, cin, cclosed, cstep, csent, rin, rclosed, rsent>>
sessionVars == <<pc, result, methods, method, authst, cred, request, connect, bound,
                 consumed, reads, wlog, cout>>
relayVars == <<spawned, cp, buf, rd, wr, ended, shutdowns>>
faultVars == <<reset>>
decodeVars == <<reqhdr, usedlog, rawlog>>
mainVars == <<listening, sess>>
codecVars == <<call, ret>>
auxVars == <<mainVars, codecVars>>
oneSessionVars == <<envVars, faultVars, sessionVars, relayVars, decodeVars>>
vars == <<oneSessionVars, auxVars>>

NoCred == [username |-> <<>>, password |-> <<>>, decoded |-> FALSE]
NoRequest == [command |-> [tag |-> "None", code |-> 0],
              address |-> [tag |-> "None", val |-> <<>>], port |-> 0]

\* main before it accepts: no session thread yet
NoSession == [phase |-> "free", client |-> "none", remote |-> "none",
              relayed |-> 0, outcome |-> "none"]
\* the variables of main and of the codec calls, at rest
MainIdle == listening = TRUE /\ sess = <<>>
NotReturned == [done |-> FALSE, val |-> <<>>]
Returned(v) == [done |-> TRUE, val |-> v]
CodecIdle == call = [fn |-> "none"] /\ ret = NotReturned

\* one session, as handle_client is entered
SessionInit ==
    /\ variant \in {"advanced", "basic"}
    /\ expected \in ExpectedChoices
    /\ payload \in {0, MaxPayload}
    /\ cin = <<>> /\ cclosed = FALSE /\ cstep = 0 /\ csent = 0
    /\ rin = <<>> /\ rclosed = FALSE /\ rsent = 0
    /\ pc = "greeting" /\ result = "none"
    /\ methods = <<>> /\ method = -1 /\ authst = "none" /\ cred = NoCred
    /\ request = NoRequest /\ connect = "none" /\ bound = NoBound
    /\ consumed = 0 /\ reads = <<>> /\ wlog = <<>> /\ cout = <<>>
    /\ spawned = FALSE
    /\ cp = [d \in Dir |-> "idle"]
    /\ buf = [d \in Dir |-> <<>>]
    /\ rd = [d \in Dir |-> <<>>]
    /\ wr = [d \in Dir |-> <<>>]
    /\ ended = [d \in Dir |-> "no"]
    /\ reset = [d \in Dir |-> FALSE]
    /\ shutdowns = {}
    /\ reqhdr = <<>> /\ usedlog = <<>> /\ rawlog = <<>>

Init == SessionInit /\ MainIdle /\ CodecIdle

\* ------------------------------------------------------------------------
\* The environment: the client and the remote host
\* ------------------------------------------------------------------------
ClientSendGreeting ==
    /\ ~cclosed /\ ~reset["fwd"] /\ cstep = 0
    /\ \E g \in GreetingsOf(payload) : cin' = cin \o g
    /\ cstep' = 1
    /\ UNCHANGED <<variant, expected, payload, cclosed, csent, rin, rclosed, rsent>>
    /\ UNCHANGED <<faultVars, sessionVars, relayVars, decodeVars, auxVars>>

ClientSendAuth ==
    /\ ~cclosed /\ ~reset["fwd"] /\ cstep = 1
    /\ \E a \in AuthMsgsOf(payload) : cin' = cin \o a
    /\ cstep' = 2
    /\ UNCHANGED <<variant, expected, payload, cclosed, csent, rin, rclosed, rsent>>
    /\ UNCHANGED <<faultVars, sessionVars, relayVars, decodeVars, auxVars>>

\* a client may go to its request without an authentication message
ClientSendRequest ==
    /\ ~cclosed /\ ~reset["fwd"] /\ cstep \in {1, 2}
    /\ \E q \in RequestsOf(payload) : cin' = cin \o q
    /\ cstep' = 3
    /\ UNCHANGED <<variant, expected, payload, cclosed, csent, rin, rclosed, rsent>>
    /\ UNCHANGED <<faultVars, sessionVars, relayVars, decodeVars, auxVars>>

ClientSendData ==
    /\ ~cclosed /\ ~reset["fwd"] /\ cstep = 3 /\ csent < payload
    /\ cin' = Append(cin, ClientByte(csent))
    /\ csent' = csent + 1
    /\ UNCHANGED <<variant, expected, payload, cclosed, cstep, rin, rclosed, rsent>>
    /\ UNCHANGED <<faultVars, sessionVars, relayVars, decodeVars, auxVars>>

ClientClose ==
    /\ ~cclosed /\ ~reset["fwd"]
    /\ cclosed' = TRUE
    /\ UNCHANGED <<variant, expected, payload, cin, cstep, csent, rin, rclosed, rsent>>
    /\ UNCHANGED <<faultVars, sessionVars, relayVars, decodeVars, auxVars>>

\* the remote host exists once request.connect() has succeeded
RemoteSend ==
    /\ connect = "ok" /\ ~rclosed /\ ~reset["back"] /\ rsent < payload
    /\ rin' = Append(rin, RemoteByte(rsent))
    /\ rsent' = rsent + 1
    /\ UNCHANGED <<variant, expected, payload, cin, cclosed, cstep, csent, rclosed>>
    /\ UNCHANGED <<faultVars, sessionVars, relayVars, decodeVars, auxVars>>

RemoteClose ==
    /\ connect = "ok" /\ ~rclosed /\ ~reset["back"]
    /\ rclosed' = TRUE
    /\ UNCHANGED <<variant, expected, payload, cin, cclosed, cstep, csent, rin, rsent>>
    /\ UNCHANGED <<faultVars, sessionVars, relayVars, decodeVars, auxVars>>

\* what a read of the client stream finds once the bytes in cin are taken
ClientStream == IF cclosed THEN "eof" ELSE IF reset["fwd"] THEN "reset" ELSE "open"

\* the read_exact of the decoder handle_client is in waits for bytes
HandshakeWaits ==
    \/ pc = "greeting" /\ read_greeting(cin, ClientStream).st = "block"
    \/ pc = "auth" /\ read_auth_request(cin, ClientStream).st = "block"
    \/ pc = "request" /\ read_request(cin, ClientStream).st = "block"

\* the client resets its connection while a decoder of the handshake reads
\* from it: that read_exact returns the error, the client has not closed
ClientResetHandshake ==
    /\ HandshakeWaits
    /\ reset' = [reset EXCEPT !["fwd"] = TRUE]
    /\ UNCHANGED <<envVars, sessionVars, relayVars, decodeVars, auxVars>>

\* a peer resets its connection while the relay reads from it; it sends
\* and closes no more after that
Reset(d) ==
    /\ cp[d] \in {"read", "write"} /\ ~reset[d]
    /\ reset' = [reset EXCEPT ![d] = TRUE]
    /\ UNCHANGED <<envVars, sessionVars, relayVars, decodeVars, auxVars>>
ClientReset == Reset("fwd")
RemoteReset == Reset("back")

\* ------------------------------------------------------------------------
\* handle_client, up to the relay
\* ------------------------------------------------------------------------
\* write_all: all the bytes reach the peer, or the write fails after none of
\* them or after all but the last
WriteCuts(bytes) == {0, Len(bytes) - 1, Len(bytes)} \cap 0..Len(bytes)
Emit(kind, bytes, n) ==
    /\ wlog' = Append(wlog, [kind |-> kind, bytes |-> bytes, ok |-> (n = Len(bytes))])
    /\ cout' = cout \o Take(bytes, n)
Return(r) == pc' = "done" /\ result' = r
Consume(name, r) ==
    /\ cin' = Drop(cin, r.used)
    /\ consumed' = consumed + r.used
    /\ reads' = Append(reads, name)
    /\ usedlog' = Append(usedlog, r.used)
    /\ rawlog' = Append(rawlog, Take(cin, r.used))

\* mutant: the session goes on after "no acceptable method"
after_selection_no_return(m) == IF m = USERPASS_METHOD THEN "auth" ELSE "request"

\* mutant: the authentication is entered whatever method was selected
after_selection_always_auth(m) ==
    IF m = NO_ACCEPTABLE_METHOD THEN "done" ELSE "auth"

\* where handle_client goes after the method selection was sent
after_selection(m) ==
    IF m = NO_ACCEPTABLE_METHOD THEN "done"
    ELSE IF m = USERPASS_METHOD THEN "auth"
    ELSE "request"

\* read_greeting, the choice of the method, send_method_selection
Greeting ==
    /\ pc = "greeting"
    /\ LET r == read_greeting(cin, ClientStream)
       IN  /\ r.st # "block"
           /\ Consume("greeting", r)
           /\ IF r.st # "ok"
              THEN /\ Return(r.st)
                   /\ UNCHANGED <<methods, method, wlog, cout>>
              ELSE LET m == choose_method(variant, r.val)
                       sel == send_method_selection(m)
                   IN  /\ methods' = r.val
                       /\ method' = m
                       /\ \E n \in WriteCuts(sel) :
                            /\ Emit("method", sel, n)
                            /\ IF n < Len(sel) THEN Return("WriteError")
                               ELSE IF after_selection(m) = "done"
                                    THEN Return("NoAcceptableMethod")
                                    ELSE pc' = after_selection(m) /\ result' = result
    /\ UNCHANGED <<variant, expected, payload, cclosed, cstep, csent, rin, rclosed, rsent>>
    /\ UNCHANGED <<authst, cred, request, connect, bound>>
    /\ UNCHANGED <<faultVars, relayVars, reqhdr, auxVars>>

\* perform_userpass_auth
Auth ==
    /\ pc = "auth"
    /\ LET r == read_auth_request(cin, ClientStream)
       IN  /\ r.st # "block"
           /\ Consume("auth", r)
           /\ IF r.st = "InvalidAuthVersion"
              THEN \* the failure is written with `let _ =`: its error is dropped
                   /\ cred' = cred
                   /\ \E n \in WriteCuts(AuthFailure) : Emit("auth", AuthFailure, n)
                   /\ authst' = "badversion"
                   /\ Return(r.st)
              ELSE IF r.st # "ok"
              THEN /\ authst' = "ioerr"
                   /\ cred' = cred
                   /\ Return(r.st)
                   /\ UNCHANGED <<wlog, cout>>
              ELSE IF credentials_match(r.val, expected)
              THEN /\ authst' = "match"
                   /\ cred' = [r.val EXCEPT !.decoded = TRUE]
                   /\ \E n \in WriteCuts(AuthSuccess) :
                        /\ Emit("auth", AuthSuccess, n)
                        /\ IF n < Len(AuthSuccess) THEN Return("WriteError")
                           ELSE pc' = "request" /\ result' = result
              ELSE /\ authst' = "mismatch"
                   /\ cred' = [r.val EXCEPT !.decoded = TRUE]
                   /\ \E n \in WriteCuts(AuthFailure) :
                        /\ Emit("auth", AuthFailure, n)
                        /\ IF n < Len(AuthFailure) THEN Return("WriteError")
                           ELSE Return("PermissionDenied")
    /\ UNCHANGED <<variant, expected, payload, cclosed, cstep, csent, rin, rclosed, rsent>>
    /\ UNCHANGED <<methods, method, request, connect, bound>>
    /\ UNCHANGED <<faultVars, relayVars, reqhdr, auxVars>>

\* mutant: only the commands the server knows by name are rejected
command_rejected_known_only(req) == req.command.tag \in {"Bind", "UdpAssociate"}

\* handle_client: request.command != Command::Connect
command_rejected(req) == req.command.tag # "Connect"

\* read_request and the check of the command
ReadRequest ==
    /\ pc = "request"
    /\ LET r == read_request(cin, ClientStream)
       IN  /\ r.st # "block"
           /\ Consume("request", r)
           /\ reqhdr' = (IF Len(cin) >= 4 THEN Take(cin, 4) ELSE reqhdr)
           /\ IF r.st # "ok"
              THEN /\ Return(r.st)
                   /\ UNCHANGED <<request, wlog, cout>>
              ELSE /\ request' = r.val
                   /\ IF command_rejected(r.val)
                      THEN LET rep == send_reply(ReplyCommandNotSupported, NoBound)
                           IN  \E n \in WriteCuts(rep) :
                                 /\ Emit("reply", rep, n)
                                 /\ IF n < Len(rep) THEN Return("WriteError")
                                    ELSE Return("UnsupportedCommand")
                      ELSE /\ pc' = "connect" /\ result' = result
                           /\ UNCHANGED <<wlog, cout>>
    /\ UNCHANGED <<variant, expected, payload, cclosed, cstep, csent, rin, rclosed, rsent>>
    /\ UNCHANGED <<methods, method, authst, cred, connect, bound>>
    /\ UNCHANGED <<faultVars, relayVars, auxVars>>

\* remote.local_addr().unwrap_or_else(|_| default_bound_address())
local_addr_or_default(la) == IF la = NoBound THEN default_bound_address ELSE la

\* mutant: a failed connect returns its error without a Reply
after_connect_no_reply(outcome) == IF outcome = "failed" THEN "done" ELSE "reply"

\* handle_client sends a Reply after either outcome of the connect
after_connect(outcome) == "reply"

\* request.connect(): it fails, or it succeeds and local_addr() gives la
Connect ==
    /\ pc = "connect"
    /\ \/ /\ connect' = "failed"
          /\ bound' = bound
       \/ /\ connect' = "ok"
          /\ \E la \in BoundChoices : bound' = local_addr_or_default(la)
    /\ pc' = after_connect(connect')
    /\ UNCHANGED envVars
    /\ UNCHANGED <<result, methods, method, authst, cred, request, consumed, reads, wlog, cout>>
    /\ UNCHANGED <<faultVars, relayVars, decodeVars, auxVars>>

\* the Reply handle_client sends for the outcome of the connect
connect_reply(outcome, b) ==
    IF outcome = "failed" THEN send_reply(ReplyGeneralFailure, NoBound)
    ELSE send_reply(ReplySucceeded, b)

\* mutant: the relay is entered whatever the connect gave
after_connect_reply_always_bridge(outcome) == "bridge"

\* what handle_client does once that Reply was written
after_connect_reply(outcome) == IF outcome = "failed" THEN "done" ELSE "bridge"

\* mutant: the result of send_reply is dropped
reply_write_failed_ignored(rep, n) == FALSE

\* send_reply(..)?: write_all put n bytes of the reply on the stream
reply_write_failed(rep, n) == n < Len(rep)

ConnectReply ==
    /\ pc = "reply"
    /\ LET rep == connect_reply(connect, bound)
       IN  \E n \in WriteCuts(rep) :
             /\ Emit("reply", rep, n)
             /\ IF reply_write_failed(rep, n) THEN Return("WriteError")
                ELSE IF after_connect_reply(connect) = "done" THEN Return("ConnectError")
                ELSE pc' = "bridge" /\ result' = result
    /\ UNCHANGED envVars
    /\ UNCHANGED <<methods, method, authst, cred, request, connect, bound, consumed, reads>>
    /\ UNCHANGED <<faultVars, relayVars, decodeVars, auxVars>>

\* ------------------------------------------------------------------------
\* bridge: the forwarding thread copies client -> remote ("fwd"), the
\* caller copies remote -> client ("back").  io::copy reads a chunk, writes
\* all of it, and reads again, until the source is at end-of-stream (Ok) or
\* a read or a write fails (Err).
\* ------------------------------------------------------------------------
\* try_clone twice and thread::spawn
BridgeStart ==
    /\ pc = "bridge"
    /\ \/ /\ Return("CloneError")
          /\ UNCHANGED relayVars
       \/ /\ spawned' = TRUE
          /\ cp' = [d \in Dir |-> "read"]
          /\ pc' = "relay" /\ result' = result
          /\ UNCHANGED <<buf, rd, wr, ended, shutdowns>>
    /\ UNCHANGED <<envVars, faultVars, decodeVars, auxVars>>
    /\ UNCHANGED <<methods, method, authst, cred, request, connect, bound,
                   consumed, reads, wlog, cout>>

Src(d) == IF d = "fwd" THEN cin ELSE rin
SrcClosed(d) == IF d = "fwd" THEN cclosed ELSE rclosed
TakeFromSrc(d, k) ==
    IF d = "fwd" THEN cin' = Drop(cin, k) /\ rin' = rin
    ELSE rin' = Drop(rin, k) /\ cin' = cin

\* the socket a direction reads and the socket it writes; the clones of
\* try_clone are handles to the same two sockets
SrcSock(d) == IF d = "fwd" THEN "client" ELSE "remote"
DstSock(d) == IF d = "fwd" THEN "remote" ELSE "client"
\* shutdown(Read) lets the reads of that socket return 0, shutdown(Write)
\* makes the writes to it fail, through whichever handle
ReadShut(d) == <<SrcSock(d), "Read">> \in shutdowns
WriteShut(d) == <<DstSock(d), "Write">> \in shutdowns

\* where a direction goes when its io::copy returns Err: the `?` leaves the
\* closure, or bridge, at once
after_copy_error(d) == "err"
\* mutant: the closure ends without its shutdown calls
after_copy_ok_no_shutdown(d) == "ok"

\* where a direction goes when its io::copy returns Ok
after_copy_ok(d) == "shutdown"
\* in the caller's context `io::copy(..)?` returns from bridge
bridge_returns_on_error(d) == d = "back"

CopyFail(d, how) ==
    /\ ended' = [ended EXCEPT ![d] = how]
    /\ cp' = [cp EXCEPT ![d] = after_copy_error(d)]
    /\ IF bridge_returns_on_error(d) THEN Return("IoError")
       ELSE pc' = pc /\ result' = result

\* one read of io::copy
CopyRead(d) ==
    /\ cp[d] = "read"
    /\ \/ \* the read fails: the peer has reset the connection and nothing
          \* it sent before is left to read
          /\ reset[d] /\ Src(d) = <<>> /\ ~SrcClosed(d)
          /\ CopyFail(d, "readerr")
          /\ UNCHANGED <<cin, rin, buf, rd>>
       \/ \* the read returns some of the bytes that are there, also those
          \* that came before a reset
          /\ \E k \in 1..Len(Src(d)) :
               /\ buf' = [buf EXCEPT ![d] = Take(Src(d), k)]
               /\ rd' = [rd EXCEPT ![d] = rd[d] \o Take(Src(d), k)]
               /\ TakeFromSrc(d, k)
          /\ cp' = [cp EXCEPT ![d] = "write"]
          /\ UNCHANGED <<pc, result, ended>>
       \/ \* the read returns 0: end-of-stream.  After a reset it does so
          \* when the peer had closed before, and when the error of the
          \* reset was already given to the other direction's write on
          \* this socket
          /\ \/ Src(d) = <<>> /\ SrcClosed(d)
             \/ ReadShut(d)
             \/ Src(d) = <<>> /\ reset[d] /\ ended[Other(d)] = "writeerr"
          /\ ended' = [ended EXCEPT ![d] = "eof"]
          /\ cp' = [cp EXCEPT ![d] = after_copy_ok(d)]
          /\ UNCHANGED <<pc, result, cin, rin, buf, rd>>
    /\ UNCHANGED <<variant, expected, payload, cclosed, cstep, csent, rclosed, rsent>>
    /\ UNCHANGED <<methods, method, authst, cred, request, connect, bound,
                   consumed, reads, wlog, cout>>
    /\ UNCHANGED <<spawned, wr, shutdowns, reset, decodeVars, auxVars>>

\* mutant: one write call instead of write_all, its short count ignored
written_by_single_write(chunk, n) == Take(chunk, IF n > 1 THEN 1 ELSE n)

\* the bytes of chunk that write_all put on the destination when n got there
written_by(chunk, n) == Take(chunk, n)

\* write_all of the chunk read
CopyWrite(d) ==
    /\ cp[d] = "write"
    /\ \E n \in (IF WriteShut(d) THEN {0} ELSE 0..Len(buf[d])) :
         /\ wr' = [wr EXCEPT ![d] = wr[d] \o written_by(buf[d], n)]
         /\ IF n = Len(buf[d])
            THEN /\ cp' = [cp EXCEPT ![d] = "read"]
                 /\ UNCHANGED <<pc, result, ended>>
            ELSE CopyFail(d, "writeerr")
    /\ buf' = [buf EXCEPT ![d] = <<>>]
    /\ UNCHANGED <<envVars, faultVars, decodeVars, auxVars>>
    /\ UNCHANGED <<methods, method, authst, cred, request, connect, bound,
                   consumed, reads, wlog, cout>>
    /\ UNCHANGED <<spawned, rd, shutdowns>>

\* mutant: both halves of both sockets are shut down
ShutdownCalls_both(d) ==
    {<<"remote", "Write">>, <<"remote", "Read">>, <<"client", "Write">>, <<"client", "Read">>}

\* the two shutdown calls after a copy: the destination's write half and
\* the source's read half
ShutdownCalls(d) ==
    IF d = "fwd" THEN {<<"remote", "Write">>, <<"client", "Read">>}
    ELSE {<<"client", "Write">>, <<"remote", "Read">>}

CopyShutdown(d) ==
    /\ cp[d] = "shutdown"
    /\ shutdowns' = shutdowns \cup ShutdownCalls(d)
    /\ cp' = [cp EXCEPT ![d] = "ok"]
    /\ UNCHANGED <<envVars, faultVars, decodeVars, auxVars>>
    /\ UNCHANGED sessionVars
    /\ UNCHANGED <<spawned, buf, rd, wr, ended>>

\* forward.join(): the caller waits for the forwarding thread
join_ready == cp["fwd"] \in {"ok", "err", "panicked"}

\* mutant: the Err of join is dropped
join_result_ignores_panic(fwd) == IF fwd = "err" THEN "IoError" ELSE "Ok"

\* match forward.join(): the closure's own result, or the error made for a
\* panic of the thread
join_result(fwd) ==
    IF fwd = "ok" THEN "Ok"
    ELSE IF fwd = "err" THEN "IoError"
    ELSE "ThreadPanicked"

Join ==
    /\ pc = "relay" /\ cp["back"] = "ok"
    /\ join_ready
    /\ Return(join_result(cp["fwd"]))
    /\ UNCHANGED envVars
    /\ UNCHANGED <<methods, method, authst, cred, request, connect, bound,
                   consumed, reads, wlog, cout>>
    /\ UNCHANGED <<faultVars, relayVars, decodeVars, auxVars>>

\* println! panics when the write to stdout fails.  Each direction of
\* bridge prints once, after its io::copy returned Ok and before its
\* shutdown calls.  In
\* the spawned thread the panic ends the closure; in the caller's context
\* it unwinds through bridge and handle_client, which return nothing.
Panic(d) ==
    /\ spawned /\ cp[d] = "shutdown"
    /\ d = "back" => pc = "relay"
    /\ cp' = [cp EXCEPT ![d] = "panicked"]
    /\ pc' = (IF d = "back" THEN "panicked" ELSE pc)
    /\ result' = result
    /\ UNCHANGED <<envVars, faultVars, decodeVars, auxVars>>
    /\ UNCHANGED <<methods, method, authst, cred, request, connect, bound,
                   consumed, reads, wlog, cout>>
    /\ UNCHANGED <<spawned, buf, rd, wr, ended, shutdowns>>
FwdPanic == Panic("fwd")
BackPanic == Panic("back")

\* The println! calls of handle_client panic in the same way, in the
\* session's own thread: handle_client returns nothing and what it did
\* before the call stays done.
\* println!("Client supports methods: ..") after read_greeting returned Ok:
\* no method selection is written
GreetingPanic ==
    /\ pc = "greeting"
    /\ LET r == read_greeting(cin, ClientStream)
       IN  /\ r.st = "ok"
           /\ Consume("greeting", r)
           /\ methods' = r.val
    /\ pc' = "panicked"
    /\ UNCHANGED <<variant, expected, payload, cclosed, cstep, csent, rin, rclosed, rsent>>
    /\ UNCHANGED <<result, method, authst, cred, request, connect, bound, wlog, cout>>
    /\ UNCHANGED <<faultVars, relayVars, reqhdr, auxVars>>

\* println!("Proceeding without authentication (fallback)") of the advanced
\* server, after the selection of NO_AUTH_METHOD was written
SelectionPanic ==
    /\ pc = "greeting" /\ variant = "advanced"
    /\ LET r == read_greeting(cin, ClientStream)
       IN  /\ r.st = "ok"
           /\ choose_method(variant, r.val) = NO_AUTH_METHOD
           /\ Consume("greeting", r)
           /\ methods' = r.val
           /\ method' = NO_AUTH_METHOD
           /\ LET sel == send_method_selection(NO_AUTH_METHOD)
              IN  Emit("method", sel, Len(sel))
    /\ pc' = "panicked"
    /\ UNCHANGED <<variant, expected, payload, cclosed, cstep, csent, rin, rclosed, rsent>>
    /\ UNCHANGED <<result, authst, cred, request, connect, bound>>
    /\ UNCHANGED <<faultVars, relayVars, reqhdr, auxVars>>

\* println!("Authenticated user ..") of perform_userpass_auth, after the
\* AuthResult of success was written
AuthPanic ==
    /\ pc = "auth"
    /\ LET r == read_auth_request(cin, ClientStream)
       IN  /\ r.st = "ok"
           /\ credentials_match(r.val, expected)
           /\ Consume("auth", r)
           /\ authst' = "match"
           /\ cred' = [r.val EXCEPT !.decoded = TRUE]
           /\ Emit("auth", AuthSuccess, Len(AuthSuccess))
    /\ pc' = "panicked"
    /\ UNCHANGED <<variant, expected, payload, cclosed, cstep, csent, rin, rclosed, rsent>>
    /\ UNCHANGED <<result, methods, method, request, connect, bound>>
    /\ UNCHANGED <<faultVars, relayVars, reqhdr, auxVars>>

\* println!("Request: ..") after read_request returned Ok: the command is
\* not looked at, no Reply is written, no connection attempted
RequestPanic ==
    /\ pc = "request"
    /\ LET r == read_request(cin, ClientStream)
       IN  /\ r.st = "ok"
           /\ Consume("request", r)
           /\ reqhdr' = Take(cin, 4)
           /\ request' = r.val
    /\ pc' = "panicked"
    /\ UNCHANGED <<variant, expected, payload, cclosed, cstep, csent, rin, rclosed, rsent>>
    /\ UNCHANGED <<result, methods, method, authst, cred, connect, bound, wlog, cout>>
    /\ UNCHANGED <<faultVars, relayVars, auxVars>>

\* thread::spawn of bridge panics when the OS gives no thread: both
\* try_clone calls were Ok, the Succeeded reply is written, nothing is
\* relayed and neither bridge nor handle_client returns
SpawnPanic ==
    /\ pc = "bridge"
    /\ pc' = "panicked"
    /\ UNCHANGED envVars
    /\ UNCHANGED <<result, methods, method, authst, cred, request, connect, bound,
                   consumed, reads, wlog, cout>>
    /\ UNCHANGED <<faultVars, relayVars, decodeVars, auxVars>>

\* println!("Finished forwarding ..") after bridge returned Ok: the session
\* has relayed and joined, and handle_client does not return its Ok
FinishPanic ==
    /\ pc = "relay" /\ cp["back"] = "ok"
    /\ join_ready /\ join_result(cp["fwd"]) = "Ok"
    /\ pc' = "panicked"
    /\ UNCHANGED envVars
    /\ UNCHANGED <<result, methods, method, authst, cred, request, connect, bound,
                   consumed, reads, wlog, cout>>
    /\ UNCHANGED <<faultVars, relayVars, decodeVars, auxVars>>

FwdRead == CopyRead("fwd")
FwdWrite == CopyWrite("fwd")
FwdShutdown == CopyShutdown("fwd")
BackRead == CopyRead("back")
BackWrite == CopyWrite("back")
BackShutdown == CopyShutdown("back")

\* ------------------------------------------------------------------------
\* Specifications
\* ------------------------------------------------------------------------
ClientStep ==
    ClientSendGreeting \/ ClientSendAuth \/ ClientSendRequest \/ ClientSendData \/ ClientClose
    \/ ClientReset \/ ClientResetHandshake
RemoteStep == RemoteSend \/ RemoteClose \/ RemoteReset
SessionStep == Greeting \/ Auth \/ ReadRequest \/ Connect \/ ConnectReply \/ BridgeStart \/ Join
ForwardStep == FwdRead \/ FwdWrite \/ FwdShutdown
BackStep == BackRead \/ BackWrite \/ BackShutdown

Next ==
    \/ ClientSendGreeting \/ ClientSendAuth \/ ClientSendRequest \/ ClientSendData
    \/ ClientClose \/ RemoteSend \/ RemoteClose \/ ClientReset \/ RemoteReset
    \/ ClientResetHandshake
    \/ Greeting \/ Auth \/ ReadRequest \/ Connect \/ ConnectReply \/ BridgeStart \/ Join
    \/ FwdRead \/ FwdWrite \/ FwdShutdown
    \/ BackRead \/ BackWrite \/ BackShutdown

Spec == Init /\ [][Next]_vars

\* The threads of a session are scheduled fairly: a step of handle_client,
\* of the forwarding thread or of the caller's copy that stays possible is
\* taken.  A read that waits for its peer is not possible; nothing makes the
\* client or the remote send, close or reset.  The runs are those of the
\* advanced server with the default credentials in which the peers have
\* payload to relay.
LiveInit ==
    /\ Init
    /\ payload = MaxPayload
    /\ variant = "advanced"
    /\ expected = [user |-> DefaultUser, pass |-> DefaultPass]
LiveSpec ==
    /\ LiveInit /\ [][Next]_vars
    /\ WF_vars(SessionStep)
    /\ WF_vars(ForwardStep)
    /\ WF_vars(BackStep)

\* ------------------------------------------------------------------------
\* The codec on its own: calls of send_reply and of read_request on chosen
\* arguments
\* ------------------------------------------------------------------------
\* str::as_bytes on the text of the model: the UTF-8 encoding of each code
\* point, one to four bytes
Utf8Of(c) ==
    IF c < 128 THEN <<c>>
    ELSE IF c < 2048 THEN <<192 + (c \div 64), 128 + (c % 64)>>
    ELSE IF c < 65536
         THEN <<224 + (c \div 4096), 128 + ((c \div 64) % 64), 128 + (c % 64)>>
    ELSE <<240 + (c \div 262144), 128 + ((c \div 4096) % 64),
           128 + ((c \div 64) % 64), 128 + (c % 64)>>
RECURSIVE as_bytes(_)
as_bytes(text) ==
    IF text = <<>> THEN <<>>
    ELSE IF Len(text) = 1 THEN Utf8Of(text[1])
    ELSE LET half == Len(text) \div 2
         IN  as_bytes(Take(text, half)) \o as_bytes(Drop(text, half))

Repeat(b, n) == [i \in 1..n |-> b]
SamplePorts == {0, 80, 255, 256, 4321, 65535}
SampleIpv4 == {<<10, 0, 0, 1>>, <<0, 0, 0, 0>>, <<127, 0, 0, 1>>, <<255, 255, 255, 255>>}
SampleIpv6 == {Ipv6Sample, Repeat(0, 16), Repeat(255, 16)}
\* domain names as sent: empty, ASCII, of the greatest length, and names
\* whose bytes are not well-formed UTF-8
SampleDomains ==
    {<<>>, <<97>>, <<97, 46, 98>>, <<0>>, <<127>>, Repeat(97, 254), Repeat(97, 255),
     <<255>>, <<97, 128, 98>>, Repeat(255, 255),
     <<195, 169>>, <<226, 130, 172>>, <<239, 191, 189>>, <<240, 159, 152, 128>>,
     <<226, 130>>, <<237, 160, 128>>, Repeat(195, 1) \o Repeat(169, 1) \o Repeat(97, 253)}
SampleBounds ==
    {[fam |-> "V4", ip |-> a, port |-> p] : a \in SampleIpv4, p \in SamplePorts}
    \cup {[fam |-> "V6", ip |-> a, port |-> p] : a \in SampleIpv6, p \in SamplePorts}
    \cup {NoBound}
SampleAddresses ==
    {[tag |-> "Ipv4", val |-> a] : a \in SampleIpv4}
    \cup {[tag |-> "Ipv6", val |-> a] : a \in SampleIpv6}
    \cup {[tag |-> "Domain", val |-> a] : a \in SampleDomains}
CodecCalls ==
    {[fn |-> "send_reply", reply |-> r, bound |-> b] :
        r \in {ReplySucceeded, ReplyGeneralFailure, ReplyCommandNotSupported},
        b \in SampleBounds}
    \cup {[fn |-> "read_request", address |-> a, port |-> p] :
            a \in SampleAddresses, p \in SamplePorts}

\* the bytes a client sends for CONNECT to the address and port
ConnectRequestBytes(address, port) ==
    <<SOCKS5_VERSION, 1, 0>>
    \o (IF address.tag = "Ipv4" THEN <<1>> \o address.val
        ELSE IF address.tag = "Ipv6" THEN <<4>> \o address.val
        ELSE <<3, Len(address.val)>> \o address.val)
    \o <<port \div 256, port % 256>>

\* one session at rest, for the specifications that do not run it
SessionAtRest ==
    /\ SessionInit
    /\ variant = "advanced" /\ payload = 0
    /\ expected = [user |-> DefaultUser, pass |-> DefaultPass]

CodecInit ==
    /\ SessionAtRest /\ MainIdle
    /\ call \in CodecCalls
    /\ ret = NotReturned

\* send_reply builds the response it gives to write_all
CallSendReply ==
    /\ call.fn = "send_reply" /\ ~ret.done
    /\ ret' = Returned(send_reply(call.reply, call.bound))
    /\ UNCHANGED <<oneSessionVars, mainVars, call>>

\* read_request on a stream that holds the bytes of one request, still open
CallReadRequest ==
    /\ call.fn = "read_request" /\ ~ret.done
    /\ ret' = Returned(read_request(ConnectRequestBytes(call.address, call.port), "open"))
    /\ UNCHANGED <<oneSessionVars, mainVars, call>>

CodecNext == CallSendReply \/ CallReadRequest
CodecSpec == CodecInit /\ [][CodecNext]_vars


\* ------------------------------------------------------------------------
\* main: the accept loop and one thread per accepted connection.  sess[s] is
\* what became of the s-th result of listener.incoming(); each thread runs
\* handle_client on the stream moved into it, seen here phase by phase.
\* ------------------------------------------------------------------------
Sessions == 1..MaxSessions
Failures == {"ProtocolError", "IoError", "Panic"}
RunningPhases == {"greeting", "auth", "request", "connect", "relay"}
Running(s) == sess[s].phase \in RunningPhases
NextSlot(s) ==
    /\ sess[s].phase = "free"
    /\ \A t \in Sessions : t < s => sess[t].phase # "free"

MainInit ==
    /\ SessionAtRest /\ CodecIdle
    /\ listening = TRUE
    /\ sess = [s \in Sessions |-> NoSession]

\* Ok(stream): thread::spawn with the stream moved into the closure
Accept ==
    /\ listening
    /\ \E s \in Sessions :
         /\ NextSlot(s)
         /\ sess' = [sess EXCEPT ![s] = [NoSession EXCEPT !.phase = "greeting",
                                                         !.client = "open"]]
    /\ UNCHANGED <<listening, oneSessionVars, codecVars>>

\* Err(err): the error is printed and the loop goes on
AcceptError ==
    /\ listening
    /\ \E s \in Sessions :
         /\ NextSlot(s)
         /\ sess' = [sess EXCEPT ![s] = [NoSession EXCEPT !.phase = "refused",
                                                         !.outcome = "AcceptError"]]
    /\ UNCHANGED <<listening, oneSessionVars, codecVars>>

\* What the end of the process does to a session: a panic of main ends
\* every thread, also a forwarding thread left behind, and every socket of
\* the process is closed.  A session that had not ended is cut, which is
\* not an outcome of its own.
Cut(r) ==
    IF r.phase \in RunningPhases \/ r.client = "detached" \/ r.remote = "detached"
    THEN [r EXCEPT !.phase = "ended",
                   !.outcome = IF @ = "none" THEN "ProcessExit" ELSE @,
                   !.client = IF @ \in {"open", "detached"} THEN "closed" ELSE @,
                   !.remote = IF @ \in {"open", "detached"} THEN "closed" ELSE @]
    ELSE r

\* println!("SOCKS5 .. listening on ..") panics when stdout cannot be
\* written: main ends before its first accept, the listener is dropped
ListenPanic ==
    /\ listening
    /\ \A s \in Sessions : sess[s].phase = "free"
    /\ listening' = FALSE
    /\ UNCHANGED <<sess, oneSessionVars, codecVars>>

\* Ok(stream): thread::spawn panics in main when the OS gives no thread.
\* The stream accepted is dropped, the process ends.
AcceptSpawnPanic ==
    /\ listening
    /\ \E s \in Sessions :
         /\ NextSlot(s)
         /\ sess' = [t \in Sessions |->
                      Cut(IF t = s THEN [NoSession EXCEPT !.phase = "greeting",
                                                          !.client = "open"]
                          ELSE sess[t])]
    /\ listening' = FALSE
    /\ UNCHANGED <<oneSessionVars, codecVars>>

\* Err(err): eprintln! panics in main when stderr cannot be written, the
\* process ends
AcceptErrorPanic ==
    /\ listening
    /\ \E s \in Sessions :
         /\ NextSlot(s)
         /\ sess' = [t \in Sessions |->
                      IF t = s THEN [NoSession EXCEPT !.phase = "refused",
                                                      !.outcome = "AcceptError"]
                      ELSE Cut(sess[t])]
    /\ listening' = FALSE
    /\ UNCHANGED <<oneSessionVars, codecVars>>

\* handle_client goes to its next phase; connect gives it the remote socket
NextPhases(p) ==
    CASE p = "greeting" -> {"auth", "request"}
      [] p = "auth" -> {"request"}
      [] p = "request" -> {"connect"}
      [] p = "connect" -> {"relay"}
      [] OTHER -> {}
SessionAdvance(s) ==
    /\ Running(s)
    /\ \E p \in NextPhases(sess[s].phase) :
         sess' = [sess EXCEPT ![s].phase = p,
                              ![s].remote = IF p = "relay" THEN "open" ELSE @]
    /\ UNCHANGED <<listening, oneSessionVars, codecVars>>

\* bridge copies a byte between the two sockets of the session
SessionRelay(s) ==
    /\ sess[s].phase = "relay" /\ sess[s].relayed < MaxPayload
    /\ sess' = [sess EXCEPT ![s].relayed = @ + 1]
    /\ UNCHANGED <<listening, oneSessionVars, codecVars>>

\* the forwarding thread that bridge did not join copies on after the
\* session's thread ended
DetachedRelay(s) ==
    /\ sess[s].phase = "ended" /\ sess[s].client = "detached"
    /\ sess[s].relayed < MaxPayload
    /\ sess' = [sess EXCEPT ![s].relayed = @ + 1]
    /\ UNCHANGED <<listening, oneSessionVars, codecVars>>

\* that thread ends (end-of-stream or an error of its copy) and drops its
\* clones of the sockets
DetachedEnd(s) ==
    /\ sess[s].phase = "ended" /\ sess[s].client = "detached"
    /\ sess' = [sess EXCEPT ![s].client = "closed",
                            ![s].remote = IF @ = "detached" THEN "closed" ELSE @]
    /\ UNCHANGED <<listening, oneSessionVars, codecVars>>

\* mutant: main joins the session's thread and stops on its panic
main_after_session_end_joined(outcome, l) == IF outcome = "Panic" THEN FALSE ELSE l

\* the accept loop after a session's thread ended: the JoinHandle was
\* dropped at the spawn and the error is printed inside the thread
main_after_session_end(outcome, l) == l

\* the sockets of a session once its thread ended: dropped with the thread;
\* after an error of the caller's copy, or a panic of the caller's println!,
\* the forwarding thread was not joined and may still hold its clones
SocketsAfter(s, outcome) ==
    IF sess[s].phase = "relay" /\ outcome \in {"IoError", "Panic"}
    THEN {"closed", "detached"}
    ELSE {"closed"}

SessionEnd(s, outcome) ==
    /\ \E k \in SocketsAfter(s, outcome) :
         sess' = [sess EXCEPT ![s].phase = "ended",
                              ![s].outcome = outcome,
                              ![s].client = k,
                              ![s].remote = IF @ = "open" THEN k ELSE @]
    /\ listening' = main_after_session_end(outcome, listening)
    /\ UNCHANGED <<oneSessionVars, codecVars>>

\* handle_client returns Ok after the relay
SessionFinish(s) ==
    /\ sess[s].phase = "relay"
    /\ SessionEnd(s, "Ok")

\* handle_client returns Err (a protocol violation or version mismatch while
\* a message is decoded, or an I/O error), or a thread of the session panics
SessionFail(s) ==
    /\ Running(s)
    /\ \E f \in Failures :
         /\ f = "ProtocolError" => sess[s].phase \in {"greeting", "auth", "request"}
         /\ SessionEnd(s, f)

MainNext ==
    \/ Accept
    \/ AcceptError
    \/ \E s \in Sessions : SessionAdvance(s)
    \/ \E s \in Sessions : SessionRelay(s)
    \/ \E s \in Sessions : SessionFinish(s)
    \/ \E s \in Sessions : SessionFail(s)
    \/ \E s \in Sessions : DetachedRelay(s)
    \/ \E s \in Sessions : DetachedEnd(s)
    \/ ListenPanic \/ AcceptSpawnPanic \/ AcceptErrorPanic
MainSpec == MainInit /\ [][MainNext]_vars


\* The same session with a standard output that can fail under println!
PanicNext ==
    \/ Next \/ FwdPanic \/ BackPanic
    \/ GreetingPanic \/ SelectionPanic \/ AuthPanic \/ RequestPanic \/ FinishPanic
    \/ SpawnPanic
PanicSpec == LiveInit /\ [][PanicNext]_vars

\* ------------------------------------------------------------------------
\* Properties
\* ------------------------------------------------------------------------
Last(s) == s[Len(s)]
EndsWith(s, t) == Len(t) <= Len(s) /\ SubSeq(s, Len(s) - Len(t) + 1, Len(s)) = t
Terminated == pc = "done"
RepliesWritten == {i \in 1..Len(wlog) : wlog[i].kind = "reply"}
\* a greeting with VER=5 was decoded
GreetingDecoded == method # -1

\* C1: in the advanced server the method byte written in the MethodSelection
\* is 0x02 when the offered list contains 0x02 (whether or not 0x00 is offered,
\* in any order), else 0x00 when it contains 0x00, else 0xFF.
C1_MethodPriority ==
    (variant = "advanced" /\ GreetingDecoded) =>
        /\ Len(wlog) >= 1
        /\ wlog[1].kind = "method"
        /\ wlog[1].bytes = <<5, method>>
        /\ (\E i \in 1..Len(methods) : methods[i] = 2) => method = 2
        /\ (/\ \A i \in 1..Len(methods) : methods[i] # 2
            /\ \E i \in 1..Len(methods) : methods[i] = 0) => method = 0
        /\ (\A i \in 1..Len(methods) : methods[i] \notin {0, 2}) => method = 255
C1_Witness ==
    /\ variant = "advanced" /\ methods = <<0, 2>>
    /\ Len(wlog) >= 1 /\ wlog[1].bytes = <<5, 2>> /\ wlog[1].ok
    /\ pc = "auth"

\* C2: when method 0x02 was selected and the decoded username/password pair
\* differs from the expected pair, the server writes [0x01, 0x01], the session
\* ends with an error, no Request is read and no connection is attempted.
C2_AuthFailureEndsSession ==
    (/\ method = 2 /\ cred.decoded
     /\ (cred.username # expected.user \/ cred.password # expected.pass)) =>
        /\ Len(wlog) = 2
        /\ wlog[2].kind = "auth" /\ wlog[2].bytes = <<1, 1>>
        /\ wlog[2].ok => cout = <<5, 2, 1, 1>>
        /\ Terminated
        /\ result \in {"PermissionDenied", "WriteError"}
        /\ reads = <<"greeting", "auth">>
        /\ request = NoRequest
        /\ connect = "none" /\ ~spawned
C2_Witness ==
    /\ method = 2 /\ cred.decoded
    /\ cred.username = expected.user /\ cred.password # expected.pass
    /\ cout = <<5, 2, 1, 1>> /\ result = "PermissionDenied"
    /\ cin # <<>>

\* C3: for every decoded Request whose command is not Connect the server
\* writes the reply 05 07 00 01 00 00 00 00 00 00 and the session ends with an
\* error, without an outbound connection attempt and without the relay.
C3_CommandNotSupported ==
    (request # NoRequest /\ request.command.tag # "Connect") =>
        /\ wlog # <<>>
        /\ Last(wlog).kind = "reply"
        /\ Last(wlog).bytes = <<5, 7, 0, 1, 0, 0, 0, 0, 0, 0>>
        /\ Cardinality(RepliesWritten) = 1
        /\ Last(wlog).ok => EndsWith(cout, <<5, 7, 0, 1, 0, 0, 0, 0, 0, 0>>)
        /\ Terminated
        /\ result \in {"UnsupportedCommand", "WriteError"}
        /\ connect = "none" /\ ~spawned
C3_Witness ==
    /\ request # NoRequest /\ request.command = [tag |-> "Unknown", code |-> 9]
    /\ variant = "basic"
    /\ cout = <<5, 0, 5, 7, 0, 1, 0, 0, 0, 0, 0, 0>>
    /\ result = "UnsupportedCommand"

\* C4 as claimed: after a failed outbound connect the session ends returning
\* the connect error.
C4_Claimed ==
    (connect = "failed" /\ Terminated) => result = "ConnectError"
\* C4, amended: after a failed outbound connect the server writes the reply
\* GeneralFailure with the bound address 0.0.0.0:0 and the session ends with
\* the connect error if that write succeeded and with the write's error if it
\* did not; no Succeeded reply is written and the relay is not started.
C4_ConnectFailure ==
    (connect = "failed" /\ pc # "reply") =>
        /\ Terminated
        /\ Cardinality(RepliesWritten) = 1
        /\ Last(wlog).kind = "reply"
        /\ Last(wlog).bytes = <<5, 1, 0, 1, 0, 0, 0, 0, 0, 0>>
        /\ result = (IF Last(wlog).ok THEN "ConnectError" ELSE "WriteError")
        /\ Last(wlog).ok => EndsWith(cout, <<5, 1, 0, 1, 0, 0, 0, 0, 0, 0>>)
        /\ ~spawned /\ \A d \in Dir : cp[d] = "idle"
C4_Witness ==
    /\ connect = "failed" /\ Terminated /\ result = "ConnectError"
    /\ EndsWith(cout, <<5, 1, 0, 1, 0, 0, 0, 0, 0, 0>>)

\* C5: once an outbound connection was attempted, the session neither ends
\* nor starts relaying before exactly one Reply was given to write_all:
\* Succeeded after a successful connect, GeneralFailure after a failed one;
\* that Reply reaches the client unless its own write failed.
C5_ReplyBeforeOutcome ==
    (connect # "none" /\ (Terminated \/ pc \in {"bridge", "relay"} \/ spawned)) =>
        /\ Cardinality(RepliesWritten) = 1
        /\ Last(wlog).kind = "reply"
        /\ Last(wlog).bytes[2] = (IF connect = "ok" THEN 0 ELSE 1)
        /\ Last(wlog).ok => EndsWith(cout, Last(wlog).bytes)
        /\ ~Last(wlog).ok => (Terminated /\ result = "WriteError" /\ ~spawned)
C5_Witness ==
    /\ connect = "ok" /\ pc = "relay" /\ spawned
    /\ Last(wlog).kind = "reply" /\ Last(wlog).ok /\ Last(wlog).bytes[2] = 0

\* C10: for a greeting with VER=5 that offers neither 0x00 nor 0x02 (an empty
\* list too) the advanced server writes [0x05, 0xFF] and the session ends
\* having read nothing past the greeting.
C10_NoAcceptableMethod ==
    (/\ variant = "advanced" /\ GreetingDecoded
     /\ \A i \in 1..Len(methods) : methods[i] \notin {0, 2}) =>
        /\ wlog = <<[kind |-> "method", bytes |-> <<5, 255>>, ok |-> wlog[1].ok]>>
        /\ wlog[1].ok => cout = <<5, 255>>
        /\ Terminated
        /\ result \in {"NoAcceptableMethod", "WriteError"}
        /\ reads = <<"greeting">>
        /\ consumed = 2 + Len(methods)
        /\ request = NoRequest /\ connect = "none"
C10_Witness ==
    /\ variant = "advanced" /\ GreetingDecoded /\ methods = <<>>
    /\ cout = <<5, 255>> /\ result = "NoAcceptableMethod"
    /\ cin # <<>>

AllShutdowns == ShutdownCalls("fwd") \cup ShutdownCalls("back")
CopyOver(d) == cp[d] \in {"ok", "err"}

\* C6: once the forwarding thread is spawned, bridge returns to its caller
\* only after both copy directions have finished, also when one of them ended
\* with an I/O error.
C6_ReturnsAfterBothCopies ==
    (spawned /\ Terminated) => (CopyOver("fwd") /\ CopyOver("back"))

\* C7: when a direction's copy finishes, by end-of-stream or by a read error,
\* the write half of its destination and the read half of its source are
\* shut down.
C7_ShutdownAfterCopy ==
    \A d \in Dir :
        (ended[d] \in {"eof", "readerr"} /\ CopyOver(d)) => ShutdownCalls(d) \subseteq shutdowns

\* C8: in each direction the bytes written to the destination are a prefix
\* of the bytes read from the source, every chunk read is written in full
\* before the next read, and after an end-of-stream with no write error the
\* two sequences are equal.
C8_OrderPreserved ==
    \A d \in Dir :
        /\ IsPrefix(wr[d], rd[d])
        /\ cp[d] = "read" => wr[d] = rd[d]
        /\ cp[d] = "write" => (buf[d] # <<>> /\ rd[d] = wr[d] \o buf[d])
        /\ ended[d] = "eof" => wr[d] = rd[d]
C8_Witness ==
    /\ wr["fwd"] = <<ClientByte(0), ClientByte(1)>>
    /\ wr["back"] = <<RemoteByte(0), RemoteByte(1)>>
    /\ ended["fwd"] = "eof" /\ ended["back"] = "eof"
    /\ Terminated /\ result = "Ok"

\* C9 as claimed: once the relay runs and the client's stream has reached
\* end-of-stream, the session eventually completes (having shut down both
\* directions).  Stated by its completion alone, which no error path of the
\* relay decides: a session that an error has ended has completed.
C9_Claimed ==
    (spawned /\ ended["fwd"] = "eof") ~> Terminated
\* C9, amended: once the client's stream has reached end-of-stream the
\* client -> remote direction is eventually shut down; the session completes
\* once the remote -> client copy has ended too, and all four shutdowns are
\* made when that copy ended at end-of-stream.
C9_ClientCloseCompletes ==
    /\ (ended["fwd"] = "eof") ~> (cp["fwd"] = "ok" /\ ShutdownCalls("fwd") \subseteq shutdowns)
    /\ (ended["fwd"] = "eof" /\ ended["back"] # "no") ~> Terminated
    /\ (ended["fwd"] = "eof" /\ ended["back"] = "eof")
         ~> (Terminated /\ result = "Ok" /\ AllShutdowns \subseteq shutdowns)
C9_Witness ==
    /\ ended["fwd"] = "eof" /\ ended["back"] = "eof"
    /\ Terminated /\ result = "Ok" /\ AllShutdowns \subseteq shutdowns
    /\ rd["fwd"] # <<>>

\* the session is past the authentication: it reads, or has read, a Request
PastAuth ==
    \/ pc \in {"request", "connect", "reply", "bridge", "relay"}
    \/ Contains(reads, "request")
    \/ connect # "none" \/ spawned

\* the bytes a decoder took, one entry for each time it returned
RawOf(name) == {rawlog[i] : i \in {j \in 1..Len(reads) : reads[j] = name}}
\* raw is one whole AuthRequest by its own length bytes: VER ULEN UNAME PLEN
\* PASSWD, 2 + ULEN + 1 + PLEN bytes
AuthWireOk(raw) ==
    /\ Len(raw) >= 3 /\ 3 + raw[2] <= Len(raw)
    /\ Len(raw) = 2 + raw[2] + 1 + raw[3 + raw[2]]

\* C16: in the advanced server, once method 0x02 was selected, a Request is
\* read and a connection attempted only after the AuthResult [0x01, 0x00] was
\* written, and that is written only when the decoded username and password
\* both equal the expected pair; after an I/O error or a malformed message in
\* the authentication the session never reaches the Request phase.
C16_AuthGatesRequest ==
    (variant = "advanced" /\ method = USERPASS_METHOD) =>
        /\ PastAuth =>
             /\ Len(wlog) >= 2
             /\ wlog[2].kind = "auth" /\ wlog[2].bytes = AuthSuccess /\ wlog[2].ok
             /\ Len(rawlog) >= 2 /\ usedlog[2] = Len(rawlog[2])
             /\ AuthWireOk(rawlog[2])
        /\ \A i \in 1..Len(wlog) :
             (wlog[i].kind = "auth" /\ wlog[i].bytes = AuthSuccess) =>
                /\ cred.decoded
                /\ cred.username = expected.user /\ cred.password = expected.pass
        /\ authst = "ioerr" =>
             /\ result \in {"UnexpectedEof", "ConnectionReset"}
             /\ result = "ConnectionReset" <=> reset["fwd"]
             /\ Len(wlog) = 1
        /\ (\/ authst \in {"ioerr", "badversion", "mismatch"}
            \/ (Len(wlog) >= 2 /\ ~wlog[2].ok)) =>
                /\ Terminated /\ result \notin {"none", "Ok"}
                /\ ~PastAuth /\ request = NoRequest
\* the client resets its connection while the authentication message is read
C16_WitnessReset ==
    /\ variant = "advanced" /\ method = USERPASS_METHOD
    /\ authst = "ioerr" /\ result = "ConnectionReset" /\ ~cclosed
    /\ rawlog[2] = <<1, 4, 117>>
    /\ Len(wlog) = 1 /\ Terminated
C16_Witness ==
    /\ variant = "advanced" /\ method = USERPASS_METHOD
    /\ Len(wlog) = 3 /\ wlog[2].bytes = AuthSuccess /\ wlog[2].ok
    /\ cred.username = DefaultUser /\ cred.password = DefaultPass
    /\ connect = "ok" /\ pc = "relay"

\* C17: when the version byte of the authentication message is not 0x01 the
\* server writes [0x01, 0x01] and the session ends having taken only the two
\* header bytes of that message: no username or password byte, no Request is
\* read and no connection is attempted.
C17_BadAuthVersion ==
    authst = "badversion" =>
        /\ reads = <<"greeting", "auth">>
        /\ usedlog[2] = 2 /\ consumed = usedlog[1] + 2
        /\ cred = NoCred
        /\ Len(wlog) = 2 /\ wlog[2].kind = "auth" /\ wlog[2].bytes = AuthFailure
        /\ wlog[2].ok => cout = <<5, 2, 1, 1>>
        /\ Terminated /\ result = "InvalidAuthVersion"
        /\ request = NoRequest /\ connect = "none" /\ ~spawned
C17_Witness ==
    /\ authst = "badversion" /\ cout = <<5, 2, 1, 1>>
    /\ Len(cin) = Len(DefaultUser) + 1 + Len(DefaultPass)
    /\ Terminated

\* the phases of handle_client in their order; the connect phase covers the
\* connect and its Reply, the relay phase covers bridge
PhaseRank(p) ==
    CASE p = "greeting" -> 1
      [] p = "auth" -> 2
      [] p = "request" -> 3
      [] p \in {"connect", "reply"} -> 4
      [] p \in {"bridge", "relay"} -> 5
      [] p = "done" -> 6
StepRank(p) ==
    CASE p = "reply" -> 1
      [] p = "relay" -> 1
      [] OTHER -> 0
\* the kinds of the handshake messages given to write_all, in their order
WrittenKinds == [i \in 1..Len(wlog) |-> wlog[i].kind]
HandshakeOrders ==
    {<<>>, <<"method">>, <<"method", "auth">>, <<"method", "reply">>,
     <<"method", "auth", "reply">>}
ReadOrders ==
    {<<>>, <<"greeting">>, <<"greeting", "auth">>, <<"greeting", "request">>,
     <<"greeting", "auth", "request">>}
PhaseOrderState ==
    /\ WrittenKinds \in HandshakeOrders
    /\ reads \in ReadOrders
    /\ (pc = "auth" \/ Contains(reads, "auth") \/ Contains(WrittenKinds, "auth")) =>
          (variant = "advanced" /\ method = USERPASS_METHOD)
    /\ (spawned \/ rd["back"] # <<>> \/ wr["back"] # <<>> \/ wr["fwd"] # <<>>) =>
          /\ Last(WrittenKinds) = "reply" /\ Last(wlog).ok
          /\ Last(wlog).bytes[2] = ReplySucceeded
          /\ reads[Len(reads)] = "request"
PhaseOrderStep ==
    /\ PhaseRank(pc') >= PhaseRank(pc)
    /\ (PhaseRank(pc') = PhaseRank(pc)) => StepRank(pc') >= StepRank(pc)
    /\ IsPrefix(wlog, wlog') /\ IsPrefix(reads, reads')
    /\ spawned => (wlog' = wlog /\ cout' = cout /\ reads' = reads)

\* C19: the phases of a session only move forward (Greeting, Authentication
\* only when 0x02 was selected, Request, Connect, Relay) and none is entered
\* again; the server writes at most one MethodSelection, at most one
\* AuthResult and at most one Reply to the client, in that order, and relays
\* bytes only after them.
C19_PhasesForward == [][PhaseOrderStep]_vars /\ []PhaseOrderState
C19_Witness ==
    /\ WrittenKinds = <<"method", "auth", "reply">>
    /\ reads = <<"greeting", "auth", "request">>
    /\ wr["back"] # <<>> /\ wr["fwd"] # <<>>
    /\ Terminated /\ result = "Ok"

\* the failure the claim gives for a 4-byte Request header: VER first, then
\* RSV, then ATYP; the command takes no part in it
HeaderFault(h) ==
    IF h[1] # 5 THEN "UnsupportedVersion"
    ELSE IF h[3] # 0 THEN "ReservedNotZero"
    ELSE IF h[4] \notin {1, 3, 4} THEN "UnsupportedAddressType"
    ELSE "none"

\* C20: a Request whose 4-byte header is bad fails to decode with the error
\* of the first failing check in the order VER # 0x05, RSV # 0x00,
\* unrecognized ATYP; in each case exactly 4 bytes of the Request are taken,
\* no Reply is written and no connection is attempted.  An unrecognized
\* command alone never makes the decoding fail.
C20_HeaderPrecedence ==
    (Contains(reads, "request") /\ Len(reqhdr) = 4) =>
        /\ HeaderFault(reqhdr) # "none" =>
             /\ result = HeaderFault(reqhdr)
             /\ Last(usedlog) = 4
             /\ Terminated
             /\ RepliesWritten = {} /\ ~Contains(WrittenKinds, "reply")
             /\ request = NoRequest
             /\ connect = "none" /\ ~spawned
        /\ HeaderFault(reqhdr) = "none" =>
             \/ /\ request # NoRequest
                /\ request.command = Command_from(reqhdr[2])
                /\ (reqhdr[2] \notin {1, 2, 3}) => request.command.tag = "Unknown"
             \/ \* a read of the address or of the port failed
                /\ request = NoRequest
                /\ \/ result = "UnexpectedEof" /\ cclosed /\ ~reset["fwd"]
                   \/ result = "ConnectionReset" /\ reset["fwd"]
                /\ Terminated /\ connect = "none"
                /\ RepliesWritten = {} /\ ~Contains(WrittenKinds, "reply")
C20_Witness ==
    /\ reqhdr = <<SOCKS5_VERSION, 2, 1, 5>>
    /\ result = "ReservedNotZero" /\ Last(usedlog) = 4
    /\ cin = PortBytes
    /\ Len(wlog) = 1
\* the header is well-formed and the client resets its connection before
\* the port has come: the failure is the error of that read
C20_WitnessReset ==
    /\ reqhdr = <<SOCKS5_VERSION, 1, 0, 1>> /\ request = NoRequest
    /\ result = "ConnectionReset" /\ ~cclosed /\ Last(usedlog) = 9
\* a header bad in its version, reserved byte and address type at once
C20_WitnessAllBad == reqhdr = <<4, 1, 1, 5>> /\ result = "UnsupportedVersion"
\* a well-formed Request with a command the server does not know is decoded
C20_WitnessUnknownCommand ==
    /\ Len(reqhdr) = 4 /\ reqhdr[2] = 9
    /\ request # NoRequest /\ request.command.tag = "Unknown"

\* the payload bytes the peer of direction d has sent so far
SentTo(d) ==
    IF d = "fwd" THEN [i \in 1..csent |-> ClientByte(i - 1)]
    ELSE [i \in 1..rsent |-> RemoteByte(i - 1)]
\* bytes the peer has sent that direction d has not yet written out
Pending(d) == Src(d) # <<>> \/ buf[d] # <<>>
HalfClosed(d) ==
    /\ cp[d] = "ok" /\ ended[d] = "eof"
    /\ ShutdownCalls(d) \subseteq shutdowns
\* a direction that is still copying has the halves it uses open, and it
\* reaches end-of-stream only when its peer closed, or reset its connection,
\* and all the peer had sent was read and written
OtherDirectionAlive ==
    \A d \in Dir :
        /\ (spawned /\ cp[d] \in {"read", "write"}) => (~ReadShut(d) /\ ~WriteShut(d))
        /\ spawned => IsPrefix(wr[d], SentTo(d))
        /\ ended[d] = "eof" =>
             /\ SrcClosed(d) \/ reset[d]
             /\ rd[d] = SentTo(d) /\ wr[d] = rd[d]

C18_WitnessBack ==
    /\ HalfClosed("back")
    /\ cp["fwd"] = "read" /\ ended["fwd"] = "no"
    /\ wr["fwd"] = <<ClientByte(0), ClientByte(1)>>

\* the threads of the session that own a handle to a socket: handle_client
\* owns `client`, and `remote` once connect gave it, until it returns; the
\* forwarding closure owns the clones client_reader and remote_writer until
\* it ends.  A socket is closed when no handle to it is left.
Holders(sock) ==
    (IF pc \notin {"done", "panicked"} /\ (sock = "client" \/ connect = "ok") THEN {"caller"} ELSE {})
    \cup (IF spawned /\ cp["fwd"] \notin {"ok", "err", "panicked"} THEN {"forward"} ELSE {})
Copying(d) == spawned /\ cp[d] \in {"read", "write"}

\* C12: when a session ends with an error, on any path, an I/O error in one
\* relay direction included, its client and remote sockets are closed: once
\* handle_client has returned no thread of the session holds a handle to
\* either socket or goes on copying.
C12_SocketsClosedOnError ==
    (Terminated /\ result \notin {"none", "Ok"}) =>
        /\ Holders("client") = {} /\ Holders("remote") = {}
        /\ ~Copying("fwd") /\ ~Copying("back")

\* C13: when the context of either relay direction panics (the spawned
\* client->remote thread or the caller's remote->client context), bridge
\* gives its caller an explicit error: it neither returns Ok nor loses the
\* fault.
C13_Claimed ==
    \A d \in Dir :
        cp[d] = "panicked" =>
            \/ pc = "relay"
            \/ pc = "done" /\ result \notin {"none", "Ok"}

\* What the code gives of it: when the spawned client->remote thread panics,
\* bridge never returns Ok: forward.join() gives the explicit "forwarding
\* thread panicked" error once the caller's copy ended Ok, and the caller's
\* own copy error is returned otherwise.  A panic in the caller's
\* remote->client context is not turned into a value: bridge and
\* handle_client do not return.
ForwardPanicReported ==
    /\ (cp["fwd"] = "panicked" /\ pc = "done") =>
          /\ result \in {"ThreadPanicked", "IoError"}
          /\ result = "ThreadPanicked" <=> cp["back"] = "ok"
          /\ result = "IoError" <=> cp["back"] = "err"
    /\ cp["back"] = "panicked" => (pc = "panicked" /\ result = "none")
    /\ pc = "panicked" => result = "none"
ForwardPanicWitness ==
    /\ cp["fwd"] = "panicked" /\ ended["fwd"] = "eof"
    /\ ended["back"] = "eof" /\ cp["back"] = "ok"
    /\ pc = "done" /\ result = "ThreadPanicked"
\* the caller's context panicked after the forwarding thread had ended well
CallerPanicWitness == cp["back"] = "panicked" /\ cp["fwd"] = "ok" /\ pc = "panicked"

IsByte(b) == b \in 0..255
Replied == call.fn = "send_reply" /\ ret.done

\* C14: for every reply code and bound address send_reply writes exactly
\* [0x05, code, 0x00, ATYP, BND.ADDR, BND.PORT] with the port as 2 big-endian
\* bytes: ATYP 0x01 and 4 address bytes (10 bytes in all) for an IPv4
\* address, ATYP 0x04 and 16 address bytes (22 in all) for an IPv6 address,
\* ATYP 0x01 with address and port all zero when there is no bound address;
\* 10.0.0.1:4321 gives the trailing bytes 0A 00 00 01 10 E1.
C14_ReplyLayout ==
    Replied =>
        /\ \A i \in 1..Len(ret.val) : IsByte(ret.val[i])
        /\ SubSeq(ret.val, 1, 3) = <<5, call.reply, 0>>
        /\ call.bound.fam = "V4" =>
             /\ Len(ret.val) = 10 /\ ret.val[4] = 1
             /\ SubSeq(ret.val, 5, 8) = call.bound.ip
             /\ ret.val[9] * 256 + ret.val[10] = call.bound.port
        /\ call.bound.fam = "V6" =>
             /\ Len(ret.val) = 22 /\ ret.val[4] = 4
             /\ SubSeq(ret.val, 5, 20) = call.bound.ip
             /\ ret.val[21] * 256 + ret.val[22] = call.bound.port
        /\ call.bound = NoBound => ret.val = <<5, call.reply, 0, 1, 0, 0, 0, 0, 0, 0>>
        /\ (call.bound.ip = <<10, 0, 0, 1>> /\ call.bound.port = 4321) =>
             SubSeq(ret.val, 5, 10) = <<10, 0, 0, 1, 16, 225>>
C14_Witness ==
    /\ call.fn = "send_reply" /\ call.reply = ReplySucceeded
    /\ call.bound = [fam |-> "V4", ip |-> <<10, 0, 0, 1>>, port |-> 4321]
    /\ ret.val = <<5, 0, 0, 1, 10, 0, 0, 1, 16, 225>>
\* an IPv6 bound address with the greatest port
C14_WitnessV6 ==
    /\ Replied /\ call.bound.fam = "V6" /\ call.bound.port = 65535
    /\ Len(ret.val) = 22 /\ ret.val[21] = 255 /\ ret.val[22] = 255

Requested == call.fn = "read_request" /\ ret.done
\* the request decoded is CONNECT to the family, address bytes and port sent
RoundTrip ==
    /\ ret.val.st = "ok"
    /\ ret.val.used = Len(ConnectRequestBytes(call.address, call.port))
    /\ ret.val.val.command = [tag |-> "Connect", code |-> 1]
    /\ ret.val.val.address.tag = call.address.tag
    /\ ret.val.val.port = call.port
    /\ IF call.address.tag = "Domain"
       THEN as_bytes(ret.val.val.address.val) = call.address.val
       ELSE ret.val.val.address.val = call.address.val
\* every chunk of the bytes is a well-formed UTF-8 sequence
WellFormedName(bytes) ==
    \A i \in 1..Len(bytes) : ChunkStart(bytes, i) => ChunkValid(bytes, i)

\* C15: for every IPv4 address, IPv6 address and domain name of 0 to 255
\* bytes, and every 16-bit port, read_request on [05 01 00 ATYP addr port]
\* succeeds and gives CONNECT with exactly the address and the port sent; a
\* domain name of length zero is accepted.
C15_Claimed == Requested => RoundTrip

\* C15 as the code has it: the same for every IPv4 and IPv6 address and
\* every domain name whose bytes are well-formed UTF-8; a domain name with
\* ill-formed bytes is decoded too, with the port sent, but as the text in
\* which each ill-formed run is U+FFFD, so that its bytes are not those sent.
C15_RoundTrip ==
    Requested =>
        /\ (call.address.tag = "Domain" => WellFormedName(call.address.val)) => RoundTrip
        /\ ret.val.st = "ok" /\ ret.val.val.port = call.port
        /\ ret.val.val.command.tag = "Connect"
        /\ ret.val.used = Len(ConnectRequestBytes(call.address, call.port))
        /\ call.address.tag = "Domain" =>
             /\ ret.val.val.address.tag = "Domain"
             /\ ret.val.val.address.val = from_utf8_lossy(call.address.val)
             /\ Len(ret.val.val.address.val) <= Len(call.address.val)
             /\ ~WellFormedName(call.address.val) =>
                  /\ Contains(ret.val.val.address.val, REPLACEMENT_CHARACTER)
                  /\ as_bytes(ret.val.val.address.val) # call.address.val
C15_Witness ==
    /\ Requested /\ RoundTrip
    /\ call.address.tag = "Domain" /\ Len(call.address.val) = 255
    /\ call.port = 65535
\* a name of multi-byte characters comes back as it was sent
C15_WitnessMultiByte ==
    /\ Requested /\ RoundTrip
    /\ call.address = [tag |-> "Domain", val |-> <<226, 130, 172>>]
    /\ ret.val.val.address.val = <<8364>>
\* a truncated sequence is decoded as one U+FFFD
C15_WitnessTruncated ==
    /\ Requested /\ ~RoundTrip
    /\ call.address = [tag |-> "Domain", val |-> <<226, 130>>]
    /\ ret.val.val.address.val = <<REPLACEMENT_CHARACTER>>
\* the empty domain name is decoded
C15_WitnessEmpty == Requested /\ RoundTrip /\ call.address = [tag |-> "Domain", val |-> <<>>]

FailsNow(s) == sess[s].outcome = "none" /\ sess'[s].outcome \in Failures
IsolatedStep ==
    \A s \in Sessions :
        FailsNow(s) =>
            /\ \A t \in Sessions \ {s} : sess'[t] = sess[t]
            /\ listening /\ listening'
\* while main runs, the loop accepts whenever a connection can come; main
\* stops only by a panic of its own (ListenPanic, AcceptSpawnPanic,
\* AcceptErrorPanic), which is no failure of a session
AcceptLoopAlive ==
    (listening /\ \E s \in Sessions : sess[s].phase = "free") => ENABLED Accept

\* C11: with two or more sessions at once, a failure of one of them (a
\* protocol violation, a version mismatch, an I/O error, a panic of one of
\* its threads) leaves the phase, the sockets and the relayed bytes of every
\* other session as they were, and leaves the accept loop able to accept:
\* the step in which a session fails leaves main running.
C11_SessionsIsolated == [][IsolatedStep]_vars /\ []AcceptLoopAlive
C11_Witness ==
    /\ sess[1].outcome = "Panic"
    /\ sess[2].phase = "relay" /\ sess[2].relayed = MaxPayload
    /\ sess[2].client = "open" /\ sess[2].remote = "open"
    /\ listening

RECURSIVE SumSeq(_)
SumSeq(s) == IF s = <<>> THEN 0 ELSE Head(s) + SumSeq(Tail(s))
\* the length on the wire of the DST.ADDR of a request, by its ATYP byte and,
\* for a domain name, its length byte
AddrWireLen(raw) ==
    IF raw[4] = 1 THEN 4
    ELSE IF raw[4] = 4 THEN 16
    ELSE 1 + raw[5]
\* raw is one whole Request: 4 header bytes, DST.ADDR, 2 port bytes
RequestWireOk(raw) ==
    /\ Len(raw) >= 6 /\ raw[4] \in {1, 3, 4}
    /\ Len(raw) = 4 + AddrWireLen(raw) + 2
\* the address type of a decoded request, as the ATYP byte on the wire
AtypOf(a) == IF a.tag = "Ipv4" THEN 1 ELSE IF a.tag = "Domain" THEN 3 ELSE 4
UsedBy(name) == {usedlog[i] : i \in {j \in 1..Len(reads) : reads[j] = name}}

\* C21: the handshake takes from the client stream exactly the bytes of the
\* Greeting (2 + NMETHODS), of the AuthRequest when there is one
\* (2 + ULEN + 1 + PLEN) and of the Request (4 + 4|16|1+N + 2), and no more:
\* every byte the client sends after its Request, also when it is sent before
\* the Reply is written, is forwarded to the remote by the relay, in order
\* and from the first such byte on.
C21_ExactConsumption ==
    /\ Len(usedlog) = Len(reads) /\ consumed = SumSeq(usedlog)
    /\ GreetingDecoded => usedlog[1] = 2 + Len(methods)
    /\ Len(rawlog) = Len(reads)
    /\ \A i \in 1..Len(rawlog) : usedlog[i] = Len(rawlog[i])
    /\ cred.decoded =>
         /\ Cardinality(RawOf("auth")) = 1
         /\ \A raw \in RawOf("auth") :
              /\ AuthWireOk(raw)
              /\ UsedBy("auth") = {2 + raw[2] + 1 + raw[3 + raw[2]]}
    /\ request # NoRequest =>
         /\ Cardinality(RawOf("request")) = 1
         /\ \A raw \in RawOf("request") :
              /\ RequestWireOk(raw) /\ raw[4] = AtypOf(request.address)
              /\ UsedBy("request") = {4 + AddrWireLen(raw) + 2}
    /\ pc \in {"connect", "reply", "bridge"} => cin = SentTo("fwd")
    /\ spawned =>
         /\ rd["fwd"] \o cin = SentTo("fwd")
         /\ IsPrefix(wr["fwd"], SentTo("fwd"))
         /\ ended["fwd"] = "eof" => wr["fwd"] = SentTo("fwd")
C21_Witness ==
    /\ method = USERPASS_METHOD /\ Len(usedlog) = 3
    /\ request.address.tag = "Domain"
    /\ csent = MaxPayload /\ wr["fwd"] = SentTo("fwd")
    /\ ended["fwd"] = "eof"
\* the client's payload is in the stream, untouched, before the Reply is written
C21_WitnessPipelined ==
    /\ pc = "reply" /\ connect = "ok" /\ csent = MaxPayload
    /\ cin = SentTo("fwd") /\ Len(wlog) = 1

\* a byte has gone through the relay, or a copy has been started
RelayTouched ==
    \/ spawned
    \/ \E d \in Dir : cp[d] # "idle" \/ rd[d] # <<>> \/ buf[d] # <<>> \/ wr[d] # <<>>
\* the Succeeded reply was given to write_all
SucceededWritten ==
    /\ wlog # <<>> /\ Last(wlog).kind = "reply"
    /\ Last(wlog).bytes[2] = ReplySucceeded

\* C22: no application byte is relayed in either direction before the
\* Succeeded reply was written to the client completely: the remote gets no
\* client byte and the client no remote byte until send_reply(Succeeded) has
\* returned Ok, and when that write fails the relay never starts.
C22_NoRelayBeforeReply ==
    /\ RelayTouched =>
         /\ SucceededWritten /\ Last(wlog).ok
         /\ EndsWith(cout, Last(wlog).bytes)
         /\ connect = "ok"
    /\ (SucceededWritten /\ ~Last(wlog).ok) =>
         /\ ~RelayTouched
         /\ Terminated /\ result = "WriteError"
    /\ ~SucceededWritten => ~RelayTouched
C22_Witness ==
    /\ SucceededWritten /\ Last(wlog).ok
    /\ wr["fwd"] = SentTo("fwd") /\ wr["back"] = SentTo("back")
    /\ csent = MaxPayload /\ rsent = MaxPayload
\* the Succeeded reply was cut short while both peers had sent their payload
C22_WitnessWriteFails ==
    /\ SucceededWritten /\ ~Last(wlog).ok
    /\ csent = MaxPayload /\ rsent = MaxPayload
    /\ Terminated /\ ~spawned

\* C23: in the basic server the method selected is 0x00 exactly when the
\* method list of the greeting contains 0x00, also when 0x02 is offered with
\* it, and 0xFF otherwise, also for a greeting that offers 0x02 alone; the
\* basic server never selects 0x02, never reads an authentication message,
\* and after selecting 0xFF it ends without reading a Request.
C23_BasicMethodSelection ==
    (variant = "basic" /\ GreetingDecoded) =>
        /\ method = NO_AUTH_METHOD <=> Contains(methods, NO_AUTH_METHOD)
        /\ method = NO_ACCEPTABLE_METHOD <=> ~Contains(methods, NO_AUTH_METHOD)
        /\ method # USERPASS_METHOD
        /\ Len(wlog) >= 1 /\ wlog[1].kind = "method" /\ wlog[1].bytes = <<5, method>>
        /\ ~Contains(reads, "auth") /\ ~Contains(WrittenKinds, "auth")
        /\ authst = "none" /\ cred = NoCred /\ pc # "auth"
        /\ method = NO_ACCEPTABLE_METHOD =>
             /\ Terminated /\ result \in {"NoAcceptableMethod", "WriteError"}
             /\ reads = <<"greeting">> /\ consumed = 2 + Len(methods)
             /\ Len(wlog) = 1
             /\ request = NoRequest /\ connect = "none" /\ ~spawned
C23_Witness ==
    /\ variant = "basic" /\ methods = <<USERPASS_METHOD>>
    /\ method = NO_ACCEPTABLE_METHOD /\ cout = <<5, 255>>
    /\ Terminated /\ cin # <<>>
\* 0x02 offered before 0x00: the basic server selects 0x00 and goes on
C23_WitnessBoth ==
    /\ variant = "basic" /\ methods = <<USERPASS_METHOD, NO_AUTH_METHOD>>
    /\ method = NO_AUTH_METHOD /\ request # NoRequest /\ connect = "ok"

====
